---- MODULE Spec2Model ----
(***************************************************************************)
(* The PixelBattle ledger contract (contracts/contracts/PixelBattle.sol)   *)
(* as a state machine.                                                     *)
(*                                                                         *)
(* The contract storage is one variable per storage slot.  A transaction   *)
(* is a call of an external function; the function runs until it either    *)
(* finishes, reverts, or reaches an outbound value transfer                *)
(* (`recipient.call{value: v}("")`).  At a transfer the value leaves the   *)
(* contract and the call is suspended as a frame on `stack`; the recipient *)
(* decides what happens: it accepts the money, it rejects it, or - before  *)
(* doing either - its code runs calls of the contract (all gas is          *)
(* forwarded): its own, or those of any other account whose code it        *)
(* calls, the owner included.  A revert restores the storage and the       *)
(* balance the reverted call started from.                                 *)
(*                                                                         *)
(* Amounts are uint256 numbers of wei.  INITIAL_PRICE is 10^14 wei, more   *)
(* than a TLC integer holds, so an amount is a pair <<hi, lo>> that stands *)
(* for hi * Base + lo with 0 <= lo < Base, and the source's arithmetic     *)
(* (addition, subtraction, comparison, truncating a * m / d) is carried    *)
(* out exactly on these pairs.                                             *)
(***************************************************************************)
EXTENDS Integers, Sequences, FiniteSets, TLC

(***************************************************************************)
(* uint256 amounts                                                         *)
(***************************************************************************)
Base == 10000000
Zero == <<0, 0>>
Norm(h, l) == <<h + (l \div Base), l % Base>>
Wei(n) == Norm(0, n)
Add(a, b) == Norm(a[1] + b[1], a[2] + b[2])
Sub(a, b) == Norm(a[1] - b[1], a[2] - b[2])
Ge(a, b) == a[1] > b[1] \/ (a[1] = b[1] /\ a[2] >= b[2])
Gt(a, b) == a[1] > b[1] \/ (a[1] = b[1] /\ a[2] > b[2])
\* floor(a * m / d) for small m and d
MulDiv(a, m, d) ==
    LET x == a[1] * m
    IN Norm(x \div d, ((x % d) * Base + a[2] * m) \div d)

(***************************************************************************)
(* Program constants                                                       *)
(***************************************************************************)
CANVAS_WIDTH == 32
CANVAS_HEIGHT == 32
INITIAL_PRICE == <<10000000, 0>>      \* 0.0001 ether = 10^14 wei
PRICE_INCREASE_FACTOR == 110
PRICE_INCREASE_DIVISOR == 100
PREVIOUS_OWNER_PERCENTAGE == 84
PRIZE_BANK_PERCENTAGE == 15
DEVELOPER_PERCENTAGE == 1
InitialInactivityPeriod == 86400

(***************************************************************************)
(* Bounds of the model                                                     *)
(***************************************************************************)
MaxDays == 1          \* block timestamps reach DeployTime + MaxDays days
MaxPurchases == 2     \* purchases that pass validation
MaxOver == 7          \* largest overpayment tendered, in wei
MaxDepth == 2         \* calls in progress at a time: new calls are made
                      \* while fewer than MaxDepth calls are suspended
MaxOwnerCalls == 3    \* owner-only calls that take effect

DeployTime == 1

(***************************************************************************)
(* Inputs                                                                  *)
(***************************************************************************)
Nobody == "none"                      \* address(0)
Players == {"a", "b"}                 \* accounts that buy pixels
Deployer == "owner"                   \* the account that deploys the contract
Wallets == {"a"}                      \* accounts the owner names as developer wallet
NewOwners == {"a"}                    \* accounts ownership is transferred to
NoCell == <<255, 255>>

\* the cells the model follows, in the order the contract's x-major /
\* y-minor scans visit them; every other cell keeps its zero value
ScanOrder == << <<0, 0>>, <<16, 16>>, <<31, 31>> >>
Coords == {ScanOrder[i] : i \in 1..Len(ScanOrder)}
FirstCell == ScanOrder[1]
LastCell == ScanOrder[Len(ScanOrder)]
Corners == {FirstCell, LastCell}      \* the cells the callers of Spec buy
BadCoords == {<<32, 0>>, <<0, 32>>}   \* out-of-bounds purchase attempts
Colors == {"#FF0000"}
DefaultColor == "#FFFFFF"
Periods == {0}                        \* periods the owner sets
Times == {DeployTime + d * InitialInactivityPeriod : d \in 0..MaxDays}
Offsets == {-1, 0, MaxOver}           \* amount tendered minus listed price, in wei
\* the purchase attempts made with a colour and in-bounds coordinates: every
\* caller tenders the listed price for either corner; one caller tenders 1 wei
\* less for either corner, the other overpays one corner
Attempts ==
    {t \in Players \X Corners \X Offsets :
        /\ t[3] = -1 => t[1] = "a"
        /\ t[3] = MaxOver => (t[1] = "b" /\ t[2] = LastCell)}
\* the caller that makes the attempts without a colour or out of bounds
Careless == "a"

(***************************************************************************)
(* Revert reasons and results                                              *)
(***************************************************************************)
Ok == "ok"
RetFalse == "false"
ErrReentrant == "ReentrancyGuard: reentrant call"
ErrNotActive == "Game is not active"
ErrAlreadyActive == "Game is already active"
ErrX == "X-coordinate out of bounds"
ErrY == "Y-coordinate out of bounds"
ErrColor == "Color cannot be empty"
ErrPayment == "Insufficient payment"
ErrOwner == "You already own this pixel"
ErrPanic == "Panic(0x11)"
ErrPrevPay == "Payment to previous owner failed"
ErrDevPay == "Payment to developer failed"
ErrNotYet == "Game cannot be ended yet"
ErrPrize == "Prize distribution failed"

VARIABLES
    gameStartTime, lastActivityTime, inactivityPeriod, prizeBankBalance,
    gameActive, developerWallet, pixels, pixelCounts,
    _owner,       \* Ownable._owner
    entered,      \* ReentrancyGuard._status == _ENTERED
    balance,      \* address(this).balance
    endedAt,      \* ghost: block.timestamp of the latest cycle transition, 0 if none
    purchases,    \* ghost: purchases made so far (a reverted one is not made)
    ownerCalls,   \* ghost: owner-only calls that took effect (and were not
                  \* reverted with the call they were made in)
    now,          \* block.timestamp
    stack,        \* suspended calls, innermost last
    last          \* ghost: the call that has just finished (NoCall while the
                  \* code of a call is running on)

vars == <<gameStartTime, lastActivityTime, inactivityPeriod, prizeBankBalance,
          gameActive, developerWallet, pixels, pixelCounts, _owner, entered,
          balance, endedAt, purchases, ownerCalls, now, stack, last>>

ZeroPixel == [owner |-> Nobody, price |-> Zero, color |-> "", lastUpdateTime |-> 0]

\* the contract's storage (and balance) as one value
Storage ==
    [gameStartTime |-> gameStartTime, lastActivityTime |-> lastActivityTime,
     inactivityPeriod |-> inactivityPeriod, prizeBankBalance |-> prizeBankBalance,
     gameActive |-> gameActive, developerWallet |-> developerWallet,
     pixels |-> pixels, pixelCounts |-> pixelCounts, _owner |-> _owner,
     entered |-> entered, balance |-> balance, endedAt |-> endedAt,
     purchases |-> purchases, ownerCalls |-> ownerCalls]

Commit(S) ==
    /\ gameStartTime' = S.gameStartTime
    /\ lastActivityTime' = S.lastActivityTime
    /\ inactivityPeriod' = S.inactivityPeriod
    /\ prizeBankBalance' = S.prizeBankBalance
    /\ gameActive' = S.gameActive
    /\ developerWallet' = S.developerWallet
    /\ pixels' = S.pixels
    /\ pixelCounts' = S.pixelCounts
    /\ _owner' = S._owner
    /\ entered' = S.entered
    /\ balance' = S.balance
    /\ endedAt' = S.endedAt
    /\ purchases' = S.purchases
    /\ ownerCalls' = S.ownerCalls

EmptyStorage ==
    [gameStartTime |-> 0, lastActivityTime |-> 0,
     inactivityPeriod |-> InitialInactivityPeriod, prizeBankBalance |-> Zero,
     gameActive |-> FALSE, developerWallet |-> "dev",
     pixels |-> [c \in Coords |-> ZeroPixel],
     pixelCounts |-> [p \in Players |-> 0], _owner |-> Deployer,
     entered |-> FALSE, balance |-> Zero, endedAt |-> 0, purchases |-> 0,
     ownerCalls |-> 0]
(***************************************************************************)
(* Frames: the local variables of a call                                   *)
(***************************************************************************)
NewFrame(fn, caller, S) ==
    [fn |-> fn, caller |-> caller, cell |-> NoCell, color |-> "", value |-> Zero,
     pc |-> "entry",
     previousOwner |-> Nobody, listed |-> Zero, lazy |-> FALSE,
     previousOwnerShare |-> Zero, prizeBankShare |-> Zero, developerShare |-> Zero,
     developerWallet |-> Nobody,   \* the address line 170 reads
     winners |-> <<>>, processedOwners |-> <<>>, prizeAmounts |-> <<>>,
     totalDistributed |-> Zero, i |-> 0,
     snap |-> S,            \* storage when the call began
     paid |-> <<>>,         \* ghost: transfers this call has delivered
     credit |-> Zero,       \* ghost: total this call added to prizeBankBalance
     reentered |-> FALSE]   \* ghost: a nested call changed storage meanwhile

NoCall ==
    [fn |-> "none", caller |-> Nobody, cell |-> NoCell, value |-> Zero,
     result |-> Ok, depth |-> 0, outer |-> "none",
     previousOwner |-> Nobody, listed |-> Zero, lazy |-> FALSE,
     developerWallet |-> Nobody,
     winners |-> <<>>, processedOwners |-> <<>>, prizeAmounts |-> <<>>,
     paid |-> <<>>, credit |-> Zero, prePool |-> Zero, shown |-> Zero,
     cells |-> [p \in Players |-> 0],
     reentered |-> FALSE, refused |-> FALSE]

\* line 452: the price getPixel reports for a stored pixel
GetPixelPrice(px) == IF Gt(px.price, Zero) THEN px.price ELSE INITIAL_PRICE

\* lines 440-456, for in-bounds coordinates
GetPixel(S, c) ==
    [owner |-> S.pixels[c].owner, price |-> GetPixelPrice(S.pixels[c]),
     color |-> S.pixels[c].color, lastUpdateTime |-> S.pixels[c].lastUpdateTime]

\* the number of cells storage S holds with p as owner
CellsIn(S, p) == Cardinality({c \in Coords : S.pixels[c].owner = p})

\* the record of a finished call: what it was given, what it found and what
\* it did (of a cycle end also the cells each player held when the call
\* scanned the grid); of a call that reverted or changed nothing only the
\* outcome
Finished(f, result, depth, outer, refused) ==
    IF result = Ok
    THEN [fn |-> f.fn, caller |-> f.caller, cell |-> f.cell,
          value |-> f.value, result |-> result, depth |-> depth, outer |-> outer,
          previousOwner |-> f.previousOwner, listed |-> f.listed, lazy |-> f.lazy,
          developerWallet |-> f.developerWallet,
          winners |-> f.winners, processedOwners |-> f.processedOwners,
          prizeAmounts |-> f.prizeAmounts,
          paid |-> f.paid, credit |-> f.credit,
          prePool |-> f.snap.prizeBankBalance,
          shown |-> IF f.cell \in Coords
                    THEN GetPixelPrice(f.snap.pixels[f.cell]) ELSE Zero,
          cells |-> [p \in Players |->
                       IF f.fn = "purchasePixel" THEN 0 ELSE CellsIn(f.snap, p)],
          reentered |-> f.reentered, refused |-> refused]
    ELSE [NoCall EXCEPT !.fn = f.fn, !.result = result, !.depth = depth,
                        !.outer = outer, !.refused = refused]

(***************************************************************************)
(* purchasePixel                                                           *)
(***************************************************************************)
\* LazyReset that also resets a pixel written at the cycle's start time
LazyResetInclusive(S, c) ==
    IF S.pixels[c].lastUpdateTime <= S.gameStartTime
    THEN [S EXCEPT !.pixels[c] =
              [owner |-> Nobody, price |-> INITIAL_PRICE,
               color |-> DefaultColor, lastUpdateTime |-> S.gameStartTime]]
    ELSE S

\* lines 100-107: the lazy reset of a pixel last written before this cycle
LazyReset(S, c) ==
    IF S.pixels[c].lastUpdateTime < S.gameStartTime
    THEN [S EXCEPT !.pixels[c] =
              [owner |-> Nobody, price |-> INITIAL_PRICE,
               color |-> DefaultColor, lastUpdateTime |-> S.gameStartTime]]
    ELSE S

\* NextPrice with factor and divisor exchanged
NextPriceSwapped(price) == MulDiv(price, PRICE_INCREASE_DIVISOR, PRICE_INCREASE_FACTOR)

\* line 129
NextPrice(price) == MulDiv(price, PRICE_INCREASE_FACTOR, PRICE_INCREASE_DIVISOR)

\* PurchaseError without the require of line 115
PurchaseErrorNoOwnerCheck(S, caller, x, y, color, value) ==
    IF S.entered THEN ErrReentrant
    ELSE IF ~S.gameActive THEN ErrNotActive
    ELSE IF ~(x < CANVAS_WIDTH) THEN ErrX
    ELSE IF ~(y < CANVAS_HEIGHT) THEN ErrY
    ELSE IF color = "" THEN ErrColor
    ELSE LET px == LazyReset(S, <<x, y>>).pixels[<<x, y>>] IN
         IF ~Ge(value, px.price) THEN ErrPayment
         ELSE IF px.owner # Nobody /\ S.pixelCounts[px.owner] = 0 THEN ErrPanic
         ELSE Ok

\* the requires of purchasePixel in source order (nonReentrant first)
PurchaseError(S, caller, x, y, color, value) ==
    IF S.entered THEN ErrReentrant
    ELSE IF ~S.gameActive THEN ErrNotActive
    ELSE IF ~(x < CANVAS_WIDTH) THEN ErrX
    ELSE IF ~(y < CANVAS_HEIGHT) THEN ErrY
    ELSE IF color = "" THEN ErrColor
    ELSE LET px == LazyReset(S, <<x, y>>).pixels[<<x, y>>] IN
         IF ~Ge(value, px.price) THEN ErrPayment
         ELSE IF px.owner = caller THEN ErrOwner
         ELSE IF px.owner # Nobody /\ S.pixelCounts[px.owner] = 0 THEN ErrPanic
         ELSE Ok

\* the storage a failing require of purchasePixel throws away: msg.value has
\* arrived; past the nonReentrant modifier the guard is set, and from line
\* 109 on the lazy reset has been written
StorageAtRequire(S, err, c, value) ==
    LET S1 == [S EXCEPT !.balance = Add(@, value)] IN
    IF err = ErrReentrant THEN S1
    ELSE IF err \in {ErrPayment, ErrOwner, ErrPanic}
         THEN [LazyReset(S1, c) EXCEPT !.entered = TRUE]
         ELSE [S1 EXCEPT !.entered = TRUE]

\* UpdateCounts without the increment of line 121
UpdateCountsNoIncrement(counts, previousOwner, sender) ==
    IF previousOwner # Nobody
    THEN [counts EXCEPT ![previousOwner] = @ - 1]
    ELSE counts

\* UpdateCounts without the decrement of line 119
UpdateCountsNoDecrement(counts, previousOwner, sender) ==
    [counts EXCEPT ![sender] = @ + 1]

\* lines 117-121
UpdateCounts(counts, previousOwner, sender) ==
    LET dec == IF previousOwner # Nobody
               THEN [counts EXCEPT ![previousOwner] = @ - 1]
               ELSE counts
    IN [dec EXCEPT ![sender] = @ + 1]

\* PurchaseEffects decrementing the count of the stored owner, reset or not
PurchaseEffectsStoredOwner(S, caller, c, color, value, t) ==
    LET R == LazyReset(S, c)
        px == R.pixels[c]
    IN [R EXCEPT !.pixelCounts = UpdateCounts(R.pixelCounts, S.pixels[c].owner, caller),
                 !.pixels[c] = [owner |-> caller, price |-> NextPrice(px.price),
                                color |-> color, lastUpdateTime |-> t],
                 !.balance = Add(@, value),
                 !.entered = TRUE,
                 !.purchases = @ + 1]

\* PurchaseEffects escalating the amount tendered instead of the listed price
PurchaseEffectsFromValue(S, caller, c, color, value, t) ==
    LET R == LazyReset(S, c)
        px == R.pixels[c]
    IN [R EXCEPT !.pixelCounts = UpdateCounts(R.pixelCounts, px.owner, caller),
                 !.pixels[c] = [owner |-> caller, price |-> NextPrice(value),
                                color |-> color, lastUpdateTime |-> t],
                 !.balance = Add(@, value),
                 !.entered = TRUE,
                 !.purchases = @ + 1]

\* lines 98-129 for a call that passes the requires; msg.value is in the
\* balance and the reentrancy guard is set from the start of the call
PurchaseEffects(S, caller, c, color, value, t) ==
    LET R == LazyReset(S, c)
        px == R.pixels[c]
    IN [R EXCEPT !.pixelCounts = UpdateCounts(R.pixelCounts, px.owner, caller),
                 !.pixels[c] = [owner |-> caller, price |-> NextPrice(px.price),
                                color |-> color, lastUpdateTime |-> t],
                 !.balance = Add(@, value),
                 !.entered = TRUE,
                 !.purchases = @ + 1]

(***************************************************************************)
(* _distributePayment                                                      *)
(***************************************************************************)
Percent(amount, pct) == MulDiv(amount, pct, 100)

\* PreviousOwnerShare taking the prize bank's percentage
PreviousOwnerShareBankPct(previousOwner, amount) ==
    IF previousOwner # Nobody THEN Percent(amount, PRIZE_BANK_PERCENTAGE) ELSE Zero

\* PreviousOwnerShare computed whether or not there is a previous owner
PreviousOwnerShareUnconditional(previousOwner, amount) ==
    Percent(amount, PREVIOUS_OWNER_PERCENTAGE)

\* line 147, lines 152-153
PreviousOwnerShare(previousOwner, amount) ==
    IF previousOwner # Nobody THEN Percent(amount, PREVIOUS_OWNER_PERCENTAGE) ELSE Zero

\* lines 148, 160-163
PrizeBankShare(previousOwner, amount) ==
    IF previousOwner # Nobody
    THEN Percent(amount, PRIZE_BANK_PERCENTAGE)
    ELSE Add(Percent(amount, PRIZE_BANK_PERCENTAGE),
             Percent(amount, PREVIOUS_OWNER_PERCENTAGE))

\* line 149
DeveloperShare(amount) == Percent(amount, DEVELOPER_PERCENTAGE)

\* Remainder left out of the pool
RemainderDropped(amount, totalDistributed) == Zero

\* lines 175-179
Remainder(amount, totalDistributed) ==
    IF Gt(amount, totalDistributed) THEN Sub(amount, totalDistributed) ELSE Zero

\* AfterDeveloperPayment without the write of line 135
AfterDeveloperPaymentNoClock(S, f, t) ==
    LET rem == Remainder(f.value,
                   Add(Add(f.previousOwnerShare, f.prizeBankShare), f.developerShare))
    IN [S |-> [S EXCEPT !.prizeBankBalance = Add(@, rem),
                        !.entered = FALSE],
        f |-> [f EXCEPT !.pc = "done", !.credit = Add(@, rem)]]

\* lines 174-179 and purchasePixel line 135, then the guard is released
AfterDeveloperPayment(S, f, t) ==
    LET rem == Remainder(f.value,
                   Add(Add(f.previousOwnerShare, f.prizeBankShare), f.developerShare))
    IN [S |-> [S EXCEPT !.prizeBankBalance = Add(@, rem),
                        !.lastActivityTime = t,
                        !.entered = FALSE],
        f |-> [f EXCEPT !.pc = "done", !.credit = Add(@, rem)]]

\* lines 165-172
AfterPreviousOwnerPayment(S, f, t) ==
    LET S1 == [S EXCEPT !.prizeBankBalance = Add(@, f.prizeBankShare)]
        f1 == [f EXCEPT !.credit = Add(@, f.prizeBankShare)]
    IN IF Gt(f.developerShare, Zero)
       THEN [S |-> S1, f |-> [f1 EXCEPT !.pc = "payDev",
                                        !.developerWallet = S1.developerWallet]]
       ELSE AfterDeveloperPayment(S1, f1, t)

\* purchasePixel from its first line to its first transfer (or its end)
PurchaseStart(S, caller, c, color, value, t) ==
    LET R == LazyReset(S, c)
        px == R.pixels[c]
        f == [NewFrame("purchasePixel", caller, S) EXCEPT
                 !.cell = c, !.color = color, !.value = value,
                 !.previousOwner = px.owner, !.listed = px.price,
                 !.lazy = (R # S),
                 !.previousOwnerShare = PreviousOwnerShare(px.owner, value),
                 !.prizeBankShare = PrizeBankShare(px.owner, value),
                 !.developerShare = DeveloperShare(value)]
        E == PurchaseEffects(S, caller, c, color, value, t)
    IN IF f.previousOwner # Nobody /\ Gt(f.previousOwnerShare, Zero)
       THEN [S |-> E, f |-> [f EXCEPT !.pc = "payPrev"]]
       ELSE AfterPreviousOwnerPayment(E, f, t)

(***************************************************************************)
(* Cycle end: shouldEndGame, _findWinners, _distributePrizes,              *)
(* _startNewGameCycle                                                      *)
(***************************************************************************)
\* line 187
ShouldEndGame(S, t) ==
    S.gameActive /\ (t - S.lastActivityTime) >= S.inactivityPeriod

\* GetTimeRemainingBeforeEnd without the gameActive test of line 248
GetTimeRemainingIgnoringActive(S, t) ==
    IF (t - S.lastActivityTime) >= S.inactivityPeriod THEN 0
    ELSE S.inactivityPeriod - (t - S.lastActivityTime)

\* lines 247-259
GetTimeRemainingBeforeEnd(S, t) ==
    IF ~S.gameActive THEN 0
    ELSE IF (t - S.lastActivityTime) >= S.inactivityPeriod THEN 0
    ELSE S.inactivityPeriod - (t - S.lastActivityTime)

\* lines 519-533
GetGameState(S) ==
    [active |-> S.gameActive, startTime |-> S.gameStartTime,
     activity |-> S.lastActivityTime, inactivity |-> S.inactivityPeriod,
     prizeBank |-> S.prizeBankBalance]

\* lines 474-489: the scan that fills the coordinate array, stopped when
\* index reaches count
RECURSIVE FillOwned(_, _, _, _, _)
FillOwned(S, owner, k, index, pixelCoordinates) ==
    IF k > Len(ScanOrder) \/ index >= S.pixelCounts[owner] THEN pixelCoordinates
    ELSE IF S.pixels[ScanOrder[k]].owner = owner
         THEN FillOwned(S, owner, k + 1, index + 1,
                  [pixelCoordinates EXCEPT ![index * 2 + 1] = ScanOrder[k][1],
                                           ![index * 2 + 2] = ScanOrder[k][2]])
         ELSE FillOwned(S, owner, k + 1, index, pixelCoordinates)

\* lines 463-492: an array of count * 2 zeros, filled from the front
GetPixelsByOwner(S, owner) ==
    FillOwned(S, owner, 1, 0, [j \in 1..(S.pixelCounts[owner] * 2) |-> 0])

InSeq(x, seq) == \E k \in 1..Len(seq) : seq[k] = x
IndexOf(x, seq) == CHOOSE k \in 1..Len(seq) : seq[k] = x

\* lines 284-300: the distinct stored owners in scan order
RECURSIVE CollectPlayers(_, _, _)
CollectPlayers(S, k, players) ==
    IF k > Len(ScanOrder) THEN players
    ELSE LET owner == S.pixels[ScanOrder[k]].owner IN
         IF owner # Nobody /\ ~InSeq(owner, players)
         THEN CollectPlayers(S, k + 1, Append(players, owner))
         ELSE CollectPlayers(S, k + 1, players)

\* lines 302-308: running maximum and the number of players at it
RECURSIVE MaxAndCount(_, _, _, _, _)
MaxAndCount(S, players, k, maxPixelCount, winnerCount) ==
    IF k > Len(players) THEN <<maxPixelCount, winnerCount>>
    ELSE LET n == S.pixelCounts[players[k]] IN
         IF n > maxPixelCount THEN MaxAndCount(S, players, k + 1, n, 1)
         ELSE IF n = maxPixelCount
              THEN MaxAndCount(S, players, k + 1, maxPixelCount, winnerCount + 1)
              ELSE MaxAndCount(S, players, k + 1, maxPixelCount, winnerCount)

\* lines 265-327: an array of winnerCount slots filled from the front
FindWinners(S) ==
    LET players == CollectPlayers(S, 1, <<>>)
        mc == MaxAndCount(S, players, 1, 0, 0)
        atMax(p) == S.pixelCounts[p] = mc[1]
        hits == SelectSeq(players, atMax)
    IN [k \in 1..mc[2] |-> IF k <= Len(hits) THEN hits[k] ELSE Nobody]

\* lines 339-346
TotalPixels(S) == Cardinality({c \in Coords : S.pixels[c].owner # Nobody})

\* FirstPass that gives an owner one prizeShare however many cells it holds
RECURSIVE FirstPassOncePerOwner(_, _, _, _)
FirstPassOncePerOwner(S, k, prizeShare, acc) ==
    IF k > Len(ScanOrder) THEN acc
    ELSE LET owner == S.pixels[ScanOrder[k]].owner IN
         IF owner # Nobody /\ Gt(prizeShare, Zero) /\ ~InSeq(owner, acc.processedOwners)
         THEN FirstPassOncePerOwner(S, k + 1, prizeShare,
                [processedOwners |-> Append(acc.processedOwners, owner),
                 prizeAmounts |-> Append(acc.prizeAmounts, prizeShare),
                 totalDistributed |-> Add(acc.totalDistributed, prizeShare)])
         ELSE FirstPassOncePerOwner(S, k + 1, prizeShare, acc)

\* lines 358-393: one prizeShare per owned cell, accumulated per owner
RECURSIVE FirstPass(_, _, _, _)
FirstPass(S, k, prizeShare, acc) ==
    IF k > Len(ScanOrder) THEN acc
    ELSE LET owner == S.pixels[ScanOrder[k]].owner IN
         IF owner # Nobody /\ Gt(prizeShare, Zero)
         THEN IF InSeq(owner, acc.processedOwners)
              THEN FirstPass(S, k + 1, prizeShare,
                     [acc EXCEPT
                        !.prizeAmounts[IndexOf(owner, acc.processedOwners)] = Add(@, prizeShare),
                        !.totalDistributed = Add(@, prizeShare)])
              ELSE FirstPass(S, k + 1, prizeShare,
                     [processedOwners |-> Append(acc.processedOwners, owner),
                      prizeAmounts |-> Append(acc.prizeAmounts, prizeShare),
                      totalDistributed |-> Add(acc.totalDistributed, prizeShare)])
         ELSE FirstPass(S, k + 1, prizeShare, acc)

\* StartNewGameCycle that leaves the game stopped
StartNewGameCycleInactive(S, t) ==
    [S EXCEPT !.gameStartTime = t, !.lastActivityTime = t, !.endedAt = t]

\* lines 419-429 (endedAt is the ghost record of the transition)
StartNewGameCycle(S, t) ==
    [S EXCEPT !.gameActive = TRUE, !.gameStartTime = t,
              !.lastActivityTime = t, !.endedAt = t]

\* AfterPayouts without the reset of the pool at endGame line 208
AfterPayoutsKeepsLeftover(S, f, t) ==
    LET left == IF Gt(S.prizeBankBalance, f.totalDistributed)
                THEN Sub(S.prizeBankBalance, f.totalDistributed) ELSE Zero
        S1 == [S EXCEPT !.prizeBankBalance = left]
    IN [S |-> StartNewGameCycle(S1, t), f |-> [f EXCEPT !.pc = "done"]]

\* lines 408-413, then endGame lines 205-211
AfterPayouts(S, f, t) ==
    LET left == IF Gt(S.prizeBankBalance, f.totalDistributed)
                THEN Sub(S.prizeBankBalance, f.totalDistributed) ELSE Zero
        S1 == [S EXCEPT !.prizeBankBalance = left]
        S2 == [S1 EXCEPT !.prizeBankBalance = Zero]
    IN [S |-> StartNewGameCycle(S2, t), f |-> [f EXCEPT !.pc = "done"]]

\* lines 396-406: advance to the next owner with a positive amount
RECURSIVE NextPayout(_, _, _, _)
NextPayout(S, f, k, t) ==
    IF k > Len(f.processedOwners) THEN AfterPayouts(S, f, t)
    ELSE IF Gt(f.prizeAmounts[k], Zero)
         THEN [S |-> S, f |-> [f EXCEPT !.pc = "prize", !.i = k]]
         ELSE NextPayout(S, f, k + 1, t)

\* endGame / checkAndEndGame from `gameActive = false` to the first prize
\* transfer (or to the end of the call)
EndStart(S, fn, t) ==
    LET S1 == [S EXCEPT !.gameActive = FALSE]
        winners == FindWinners(S1)
        f0 == [NewFrame(fn, Nobody, S) EXCEPT !.winners = winners]
    IN IF Len(winners) = 0 \/ S1.prizeBankBalance = Zero \/ TotalPixels(S1) = 0
       THEN LET S2 == [S1 EXCEPT !.prizeBankBalance = Zero]
            IN [S |-> StartNewGameCycle(S2, t), f |-> [f0 EXCEPT !.pc = "done"]]
       ELSE LET acc == FirstPass(S1, 1, MulDiv(S1.prizeBankBalance, 1, TotalPixels(S1)),
                         [processedOwners |-> <<>>, prizeAmounts |-> <<>>,
                          totalDistributed |-> Zero])
                f1 == [f0 EXCEPT !.processedOwners = acc.processedOwners,
                                 !.prizeAmounts = acc.prizeAmounts,
                                 !.totalDistributed = acc.totalDistributed]
            IN NextPayout(S1, f1, 1, t)

\* the guards of endGame (requires) and checkAndEndGame (if)
EndError(S, fn, t) ==
    IF fn = "endGame"
    THEN IF ~S.gameActive THEN ErrNotActive
         ELSE IF ~ShouldEndGame(S, t) THEN ErrNotYet
         ELSE Ok
    ELSE IF ~ShouldEndGame(S, t) THEN RetFalse ELSE Ok

(***************************************************************************)
(* The machine                                                             *)
(***************************************************************************)
Init ==
    /\ gameStartTime = 0
    /\ lastActivityTime = 0
    /\ inactivityPeriod = InitialInactivityPeriod
    /\ prizeBankBalance = Zero
    /\ gameActive = FALSE
    /\ developerWallet = "dev"
    /\ pixels = [c \in Coords |-> ZeroPixel]
    /\ pixelCounts = [p \in Players |-> 0]
    /\ _owner = Deployer
    /\ entered = FALSE
    /\ balance = Zero
    /\ endedAt = 0
    /\ now = DeployTime
    /\ stack = <<>>
    /\ purchases = 0
    /\ ownerCalls = 0
    /\ last = NoCall

Top == stack[Len(stack)]
OuterFn == IF stack = <<>> THEN "none" ELSE Top.fn

\* the transfer a suspended call is waiting on
PendingTo(f) ==
    CASE f.pc = "payPrev" -> f.previousOwner
      [] f.pc = "payDev" -> f.developerWallet
      [] f.pc = "prize" -> f.processedOwners[f.i]
PendingAmount(f) ==
    CASE f.pc = "payPrev" -> f.previousOwnerShare
      [] f.pc = "payDev" -> f.developerShare
      [] f.pc = "prize" -> f.prizeAmounts[f.i]
\* the require that follows the transfer
RequireMessage(f) ==
    CASE f.pc = "payPrev" -> ErrPrevPay
      [] f.pc = "payDev" -> ErrDevPay
      [] f.pc = "prize" -> ErrPrize

\* who can call now: any account, between transactions and while a call is
\* suspended (the recipient's code can call the contract itself or have any
\* other account call it)
Callers == IF Len(stack) < MaxDepth THEN Players ELSE {}

\* the accounts that call the owner-only functions, at the same moments
Senders == IF Len(stack) < MaxDepth THEN Players \cup {Deployer} ELSE {}

\* the onlyOwner modifier: passes iff msg.sender is the owner
OnlyOwner(caller) == caller = _owner

\* a revert that leaves the pixel writes in place
RevertKeepsPixels(f, S) == [f.snap EXCEPT !.pixels = S.pixels]

\* a revert discards everything the call did
Revert(f, S) == f.snap

\* the contract holds the value of the transfer call f is about to make
Covered(S, f) == Ge(S.balance, PendingAmount(f))

\* a call that ran to its end (or reverted) without being suspended
FinishNew(S, f, result) ==
    /\ Commit(S)
    /\ last' = Finished(f, result, Len(stack) + 1, OuterFn, FALSE)
    /\ stack' = IF stack # <<>> /\ S # Storage
                THEN [stack EXCEPT ![Len(stack)].reentered = TRUE]
                ELSE stack
    /\ now' = now

\* an owner-only call has run: it makes no transfer, and the ghost `last`
\* keeps no record of it
FinishOwnerCall(S) ==
    /\ Commit(S)
    /\ last' = NoCall
    /\ stack' = IF stack # <<>> /\ S # Storage
                THEN [stack EXCEPT ![Len(stack)].reentered = TRUE]
                ELSE stack
    /\ now' = now

\* the innermost suspended call ends (or reverts)
FinishTop(S, f, result, refused) ==
    LET rest == SubSeq(stack, 1, Len(stack) - 1) IN
    /\ Commit(S)
    /\ last' = Finished(f, result, Len(stack),
                        IF rest = <<>> THEN "none" ELSE rest[Len(rest)].fn, refused)
    /\ stack' = IF rest # <<>> /\ S # f.snap
                THEN [rest EXCEPT ![Len(rest)].reentered = TRUE]
                ELSE rest
    /\ now' = now

\* the call of lines 157, 170, 401 is made: the value leaves the contract
\* and the recipient's code starts to run
Suspend(S, f) ==
    /\ Commit([S EXCEPT !.balance = Sub(@, PendingAmount(f))])
    /\ stack' = Append(stack, f)
    /\ last' = NoCall
    /\ now' = now

\* a new call has run to R: to its end, or to a transfer, which fails at
\* once (and the require after it reverts) when the balance does not cover it
RunNew(R) ==
    IF R.f.pc = "done" THEN FinishNew(R.S, R.f, Ok)
    ELSE IF Covered(R.S, R.f) THEN Suspend(R.S, R.f)
    ELSE FinishNew(Revert(R.f, R.S), R.f, RequireMessage(R.f))

\* the price purchasePixel will ask for cell c
ListedPrice(S, c) == LazyReset(S, c).pixels[c].price

\* PurchasePixel whose failing require keeps what the call had written
PurchasePixelNoRevert(caller, c, color, value) ==
    LET err == PurchaseError(Storage, caller, c[1], c[2], color, value)
        f0 == [NewFrame("purchasePixel", caller, Storage) EXCEPT
                  !.cell = c, !.color = color, !.value = value]
    IN IF err # Ok
       THEN FinishNew([StorageAtRequire(Storage, err, c, value)
                          EXCEPT !.entered = Storage.entered], f0, err)
       ELSE /\ purchases < MaxPurchases
            /\ RunNew(PurchaseStart(Storage, caller, c, color, value, now))

\* lines 92-138: a failing require reverts, a passing call runs to its first
\* transfer
PurchasePixel(caller, c, color, value) ==
    LET err == PurchaseError(Storage, caller, c[1], c[2], color, value)
        f0 == [NewFrame("purchasePixel", caller, Storage) EXCEPT
                  !.cell = c, !.color = color, !.value = value]
    IN IF err # Ok
       THEN FinishNew(Revert(f0, StorageAtRequire(Storage, err, c, value)), f0, err)
       ELSE /\ purchases < MaxPurchases
            /\ RunNew(PurchaseStart(Storage, caller, c, color, value, now))

\* the amount o wei above (below) amount a
Tender(a, o) == Norm(a[1], a[2] + o)

\* the nonReentrant guard (line 92) or the require of line 93 turns every
\* purchasePixel call away, whoever makes it and whatever its arguments
TurnedAway == entered \/ ~gameActive

\* the attempts made now: while every call is turned away all attempts end
\* in the same state, and one is made for them all
AttemptsNow == IF TurnedAway THEN {<<Careless, FirstCell, 0>>} ELSE Attempts

\* purchase attempts: the attempts with a colour, an attempt without a
\* colour and one per out-of-bounds coordinate
CallPurchase ==
    \/ \E t \in AttemptsNow, color \in Colors :
          /\ t[1] \in Callers
          /\ PurchasePixel(t[1], t[2], color, Tender(ListedPrice(Storage, t[2]), t[3]))
    \/ /\ Careless \in Callers
       /\ ~TurnedAway
       /\ PurchasePixel(Careless, FirstCell, "", ListedPrice(Storage, FirstCell))
    \/ /\ Careless \in Callers
       /\ ~TurnedAway
       /\ \E c \in BadCoords, color \in Colors :
             PurchasePixel(Careless, c, color, INITIAL_PRICE)

\* lines 193-212 and 218-241: neither function reads msg.sender
EndCall(fn) ==
    LET err == EndError(Storage, fn, now)
        f0 == NewFrame(fn, Nobody, Storage)
    IN IF err # Ok
       THEN FinishNew(Revert(f0, Storage), f0, err)
       ELSE RunNew(EndStart(Storage, fn, now))

\* endGame() called by any account
CallEndGame == Callers # {} /\ EndCall("endGame")

\* checkAndEndGame() called by any account
CallCheckAndEndGame == Callers # {} /\ EndCall("checkAndEndGame")

\* the code that follows a successful transfer
Resume(S, f, t) ==
    CASE f.pc = "payPrev" -> AfterPreviousOwnerPayment(S, f, t)
      [] f.pc = "payDev" -> AfterDeveloperPayment(S, f, t)
      [] f.pc = "prize" -> NextPayout(S, f, f.i + 1, t)

\* the recipient takes the money: the call returns success and the caller
\* runs on, to its end or to its next transfer
TransferAccepted ==
    /\ stack # <<>>
    /\ LET f == Top
           f1 == [f EXCEPT !.paid = Append(@, <<PendingTo(f), PendingAmount(f)>>)]
           R == Resume(Storage, f1, now)
       IN IF R.f.pc = "done"
          THEN FinishTop(R.S, R.f, Ok, FALSE)
          ELSE IF Covered(R.S, R.f)
          THEN /\ Commit([R.S EXCEPT !.balance = Sub(@, PendingAmount(R.f))])
               /\ stack' = [stack EXCEPT ![Len(stack)] = R.f]
               /\ last' = NoCall
               /\ now' = now
          ELSE FinishTop(Revert(R.f, R.S), R.f, RequireMessage(R.f), FALSE)

\* the recipient reverts: the value returns, success is false and the
\* require after the call reverts the caller
TransferFailed ==
    /\ stack # <<>>
    /\ FinishTop(Revert(Top, Storage), Top, RequireMessage(Top), TRUE)

\* an owner-only call that passes its requires takes effect
OwnerEffect(S) ==
    /\ ownerCalls < MaxOwnerCalls
    /\ FinishOwnerCall([S EXCEPT !.ownerCalls = @ + 1])

\* an owner-only function is called by the account the modifier lets through
ByOwner == {caller \in Senders : OnlyOwner(caller)} # {}

\* lines 76, 498, 506 and Ownable: an owner-only function is called by an
\* account the modifier turns away; whoever it is and whichever function it
\* calls, the call reverts
CallNotOwner ==
    /\ {caller \in Senders : ~OnlyOwner(caller)} # {}
    /\ FinishOwnerCall(Storage)

\* lines 76-84: a call while the game is active reverts
StartGame ==
    /\ ByOwner
    /\ IF gameActive
       THEN FinishOwnerCall(Storage)
       ELSE OwnerEffect([Storage EXCEPT !.gameActive = TRUE,
                                        !.gameStartTime = now,
                                        !.lastActivityTime = now])

\* lines 498-500
SetInactivityPeriod ==
    /\ ByOwner
    /\ \E p \in Periods :
          /\ p # inactivityPeriod
          /\ OwnerEffect([Storage EXCEPT !.inactivityPeriod = p])

\* lines 506-509: the zero address is refused, any other is stored
SetDeveloperWallet ==
    /\ ByOwner
    /\ \E w \in Wallets \cup {Nobody} :
          /\ w # developerWallet
          /\ IF w = Nobody
             THEN FinishOwnerCall(Storage)
             ELSE OwnerEffect([Storage EXCEPT !.developerWallet = w])

\* Ownable.transferOwnership: the zero address is refused, any other account
\* becomes the owner (a transfer to the current owner leaves storage as it is
\* and is not made)
TransferOwnership ==
    /\ ByOwner
    /\ \E newOwner \in NewOwners \cup {Nobody} :
          /\ newOwner # _owner
          /\ IF newOwner = Nobody
             THEN FinishOwnerCall(Storage)
             ELSE OwnerEffect([Storage EXCEPT !._owner = newOwner])

\* Ownable.renounceOwnership: the contract is left without an owner
RenounceOwnership ==
    /\ ByOwner
    /\ OwnerEffect([Storage EXCEPT !._owner = Nobody])

\* a later block
AdvanceTime ==
    /\ stack = <<>>
    /\ \E t \in Times : t > now /\ now' = t
    /\ UNCHANGED <<gameStartTime, lastActivityTime, inactivityPeriod,
                   prizeBankBalance, gameActive, developerWallet, pixels,
                   pixelCounts, _owner, entered, balance, endedAt, purchases,
                   ownerCalls, stack, last>>

Next ==
    \/ StartGame
    \/ SetInactivityPeriod
    \/ SetDeveloperWallet
    \/ TransferOwnership
    \/ RenounceOwnership
    \/ CallNotOwner
    \/ AdvanceTime
    \/ CallPurchase
    \/ CallEndGame
    \/ CallCheckAndEndGame
    \/ TransferAccepted
    \/ TransferFailed

Spec == Init /\ [][Next]_vars

(***************************************************************************)
(* The machine started from an opening in which every cell of ScanOrder    *)
(* has been bought                                                         *)
(***************************************************************************)
\* the storage a call that has run to R leaves when every transfer it makes
\* is accepted at once (Suspend, then TransferAccepted)
RECURSIVE Settle(_, _)
Settle(R, t) ==
    IF R.f.pc = "done" THEN R.S
    ELSE Settle(Resume([R.S EXCEPT !.balance = Sub(@, PendingAmount(R.f))],
                       R.f, t), t)

\* the storage after the deployer's startGame() at DeployTime
Started ==
    [EmptyStorage EXCEPT !.gameActive = TRUE, !.gameStartTime = DeployTime,
                         !.lastActivityTime = DeployTime, !.ownerCalls = 1]

\* the storage after the first k purchases of an opening: cell ScanOrder[j]
\* is bought by buyers[j], in scan order and at DeployTime, for the listed
\* price; the buyer of the last cell tenders o wei more
RECURSIVE Opening(_, _, _)
Opening(buyers, o, k) ==
    IF k = 0 THEN Started
    ELSE LET S == Opening(buyers, o, k - 1)
             c == ScanOrder[k]
             value == Tender(ListedPrice(S, c), IF k = Len(ScanOrder) THEN o ELSE 0)
         IN Settle(PurchaseStart(S, buyers[k], c, "#FF0000", value, DeployTime),
                   DeployTime)

Openings ==
    {Opening(buyers, o, Len(ScanOrder)) :
        buyers \in [1..Len(ScanOrder) -> Players], o \in {0, MaxOver}}

InitOpening ==
    /\ \E S \in Openings :
          /\ gameStartTime = S.gameStartTime
          /\ lastActivityTime = S.lastActivityTime
          /\ inactivityPeriod = S.inactivityPeriod
          /\ prizeBankBalance = S.prizeBankBalance
          /\ gameActive = S.gameActive
          /\ developerWallet = S.developerWallet
          /\ pixels = S.pixels
          /\ pixelCounts = S.pixelCounts
          /\ _owner = S._owner
          /\ entered = S.entered
          /\ balance = S.balance
          /\ endedAt = S.endedAt
          /\ purchases = S.purchases
          /\ ownerCalls = S.ownerCalls
    /\ now = DeployTime
    /\ stack = <<>>
    /\ last = NoCall

SpecOpening == InitOpening /\ [][Next]_vars

(***************************************************************************)
(* Properties                                                              *)
(***************************************************************************)
EndFns == {"endGame", "checkAndEndGame"}
Purchased == last.fn = "purchasePixel" /\ last.result = Ok

RECURSIVE SumPaid(_)
SumPaid(paid) == IF paid = <<>> THEN Zero ELSE Add(paid[1][2], SumPaid(Tail(paid)))

RECURSIVE SumOver(_, _)
SumOver(f, D) ==
    IF D = {} THEN 0
    ELSE LET d == CHOOSE e \in D : TRUE IN f[d] + SumOver(f, D \ {d})

OwnedCells == {c \in Coords : pixels[c].owner # Nobody}

\* the storage the call that finishes in this step started from
PreStorage == IF Len(stack') < Len(stack) THEN Top.snap ELSE Storage

\* C1 - Split exactness: what a successful purchase of amount a transfers to
\* the previous owner and to the developer plus what it adds to
\* prizeBankBalance is exactly a; when no cycle end ran inside the purchase
\* the pool has grown by exactly that addition.
C1_SplitExactness ==
    Purchased =>
        /\ Add(SumPaid(last.paid), last.credit) = last.value
        /\ ~last.reentered => prizeBankBalance = Add(last.prePool, last.credit)

C1_Witness ==
    /\ Purchased
    /\ last.previousOwner # Nobody
    /\ Gt(last.value, last.listed)
    /\ Gt(last.credit, MulDiv(last.value, 15, 100))

\* C2 - Ledger conservation (as claimed): after every successful purchase
\* the pixelCounts add up to the number of cells that have an owner.
C2_LedgerConservation ==
    Purchased => SumOver(pixelCounts, Players) = Cardinality(OwnedCells)

\* C3 - All-or-nothing purchase: when the transfer to the previous owner or
\* to the developer fails, the purchase reverts and the whole storage and the
\* balance are what they were before the call.
C3_AllOrNothing ==
    [][(/\ stack # <<>>
        /\ stack' = <<>>
        /\ last'.fn = "purchasePixel"
        /\ last'.result \in {ErrPrevPay, ErrDevPay})
       => Storage' = stack[1].snap]_vars

C3_Witness ==
    /\ last.fn = "purchasePixel"
    /\ last.result \in {ErrPrevPay, ErrDevPay}
    /\ last.refused
    /\ stack = <<>>

\* a call of endGame or checkAndEndGame is made in this step
EndCalled == CallEndGame \/ CallCheckAndEndGame
\* ... while the prize transfers of another cycle end are being delivered
InsideCycleEnd == stack # <<>> /\ Top.fn \in EndFns
EndRefused == last'.result \in {RetFalse, ErrNotActive, ErrNotYet}

\* C4 - Cycle restart once per expiry (as claimed): an end call made at the
\* time of a completed cycle transition, or from inside the prize transfers
\* of a cycle end, changes nothing; checkAndEndGame returns false and endGame
\* is rejected by one of its two requires.
C4_SecondEndIsNoOp ==
    [][((endedAt = now \/ InsideCycleEnd) /\ EndCalled)
       => (Storage' = Storage /\ EndRefused)]_vars

\* C5 - Failure isolation (as claimed): a cycle end in which a recipient
\* refuses its prize still completes: the pool is zeroed and the new cycle
\* is open.
C5_FailureIsolation ==
    (last.fn \in EndFns /\ last.refused)
        => /\ last.result = Ok
           /\ prizeBankBalance = Zero
           /\ gameActive
           /\ gameStartTime = now

\* the owner purchasePixel sees once the lazy reset is applied
ResolvedOwner(S, c) == LazyReset(S, c).pixels[c].owner

\* what purchasePixel answers caller p for cell c with colour color at
\* offset o from the price
AnswerTo(p, c, color, o) ==
    PurchaseError(Storage, p, c[1], c[2], color, Tender(ListedPrice(Storage, c), o))

\* ... with a colour
Answer(p, c, o) == AnswerTo(p, c, "#FF0000", o)

\* the colour arguments: a colour, no colour
ColorArgs == Colors \cup {""}

\* C6 - No self-repurchase (as claimed): a purchase of a cell by its current
\* owner fails with AlreadyOwner whatever the amount.
C6_SelfRepurchaseAlreadyOwner ==
    \A p \in Players, c \in Coords, o \in Offsets, color \in ColorArgs :
        ResolvedOwner(Storage, c) = p => AnswerTo(p, c, color, o) = ErrOwner

\* C6 (amended) - such a purchase always fails: with the reentrancy guard's
\* error when a purchase is in progress, else with "Game is not active" when
\* the game is stopped, else with "Color cannot be empty" when no colour is
\* given, else with "Insufficient payment" when the amount is below the
\* listed price, and with AlreadyOwner only when a colour is given and the
\* amount covers the listed price.
C6_SelfRepurchaseFails ==
    \A p \in Players, c \in Coords, o \in Offsets, color \in ColorArgs :
        ResolvedOwner(Storage, c) = p =>
            /\ AnswerTo(p, c, color, o) # Ok
            /\ AnswerTo(p, c, color, o) =
                  IF entered THEN ErrReentrant
                  ELSE IF ~gameActive THEN ErrNotActive
                  ELSE IF color = "" THEN ErrColor
                  ELSE IF o < 0 THEN ErrPayment
                  ELSE ErrOwner

C6_Witness ==
    /\ last.fn = "purchasePixel"
    /\ last.result = ErrOwner
    /\ \E c \in Coords : pixels[c].owner # Nobody /\ pixels[c].lastUpdateTime >= gameStartTime

\* the price getPixel reported for cell c before the call that is finishing
ShownBefore(c) == GetPixelPrice(PreStorage.pixels[c])
\* a successful purchase of cell c finishes in this step
Bought(c) ==
    /\ Len(stack') < Len(stack)
    /\ last'.fn = "purchasePixel"
    /\ last'.result = Ok
    /\ last'.cell = c

C8_PriceEscalation ==
    Purchased =>
        /\ pixels[last.cell].price = MulDiv(last.listed, 110, 100)
        /\ last.listed = IF last.lazy THEN INITIAL_PRICE ELSE last.shown
        /\ Ge(last.value, last.listed)

C8_Witness ==
    /\ Purchased
    /\ Gt(last.value, last.listed)
    /\ Gt(last.listed, INITIAL_PRICE)
    /\ pixels[last.cell].price # MulDiv(last.value, 110, 100)

\* C9 - Split with a previous owner: the previous owner is sent
\* floor(a * 84 / 100), then the developer floor(a * 1 / 100), and the pool is
\* credited floor(a * 15 / 100) plus the remainder, for the full amount a.
C9_SplitWithPreviousOwner ==
    (Purchased /\ last.previousOwner # Nobody) =>
        LET a == last.value
            toOwner == MulDiv(a, 84, 100)
            toDev == MulDiv(a, 1, 100)
            toPool == MulDiv(a, 15, 100)
        IN /\ last.paid = << <<last.previousOwner, toOwner>>,
                             <<last.developerWallet, toDev>> >>
           /\ last.credit = Add(toPool, Sub(Sub(Sub(a, toOwner), toDev), toPool))
           /\ ~last.reentered =>
                 /\ prizeBankBalance = Add(last.prePool, last.credit)
                 /\ last.developerWallet = developerWallet

C9_Witness ==
    /\ Purchased
    /\ last.previousOwner \in Players
    /\ Gt(last.value, last.listed)
    /\ ~last.reentered
    /\ Gt(last.paid[1][2], MulDiv(last.listed, 84, 100))

\* C10 - Split without a previous owner: only the developer is paid,
\* floor(a / 100), and the pool is credited a - floor(a / 100).
C10_SplitWithoutPreviousOwner ==
    (Purchased /\ last.previousOwner = Nobody) =>
        LET a == last.value
        IN /\ last.paid = << <<last.developerWallet, MulDiv(a, 1, 100)>> >>
           /\ last.credit = Sub(a, MulDiv(a, 1, 100))
           /\ Ge(last.credit, MulDiv(a, 99, 100))
           /\ ~last.reentered =>
                 /\ prizeBankBalance = Add(last.prePool, last.credit)
                 /\ last.developerWallet = developerWallet

C10_Witness ==
    /\ Purchased
    /\ last.previousOwner = Nobody
    /\ last.lazy
    /\ Gt(last.shown, INITIAL_PRICE)
    /\ Gt(last.credit, Add(MulDiv(last.value, 15, 100), MulDiv(last.value, 84, 100)))

\* n hundredths of INITIAL_PRICE: the amount the worked example writes as n
Units(n) == MulDiv(INITIAL_PRICE, n, 100)

\* the two purchases of the worked example: the first purchase ever, of a
\* fresh cell for INITIAL_PRICE, and the purchase of the same cell that
\* follows it for the escalated price, no owner call or cycle end in between
FirstExamplePurchase ==
    /\ Purchased
    /\ purchases = 1
    /\ last.value = INITIAL_PRICE
    /\ ~last.reentered
SecondExamplePurchase ==
    /\ Purchased
    /\ purchases = 2
    /\ last.previousOwner # Nobody
    /\ last.value = Units(110)
    /\ last.listed = Units(110)
    /\ last.prePool = Units(99)
    /\ ~last.reentered

\* C11 - Worked example (as claimed, the example's 100 being INITIAL_PRICE):
\* A buys the fresh cell (0,0) for 100: the price becomes 110, the pool
\* grows by 15, the developer gets 1 and A's count is 1; B then buys it for
\* 110: A receives 92, the developer 1, the pool totals 32, A's count is 0
\* and B's is 1.
C11_WorkedExample ==
    /\ FirstExamplePurchase =>
          /\ pixels[last.cell].price = Units(110)
          /\ prizeBankBalance = Units(15)
          /\ last.paid = << <<last.developerWallet, Units(1)>> >>
          /\ pixelCounts[last.caller] = 1
    /\ SecondExamplePurchase =>
          /\ last.paid = << <<last.previousOwner, Units(92)>>,
                            <<last.developerWallet, Units(1)>> >>
          /\ prizeBankBalance = Units(32)
          /\ pixelCounts[last.previousOwner] = 0
          /\ pixelCounts[last.caller] = 1

\* C11 (amended) - the same example as the code runs it, with INITIAL_PRICE
\* = 10^14 wei: A buys the fresh cell for 10^14: the price becomes
\* 1.1 * 10^14, there is no previous owner, so the pool grows by
\* 0.99 * 10^14 (15% + 84%), and the developer gets 10^12; B then buys it
\* for 1.1 * 10^14: A receives 92.4 * 10^12, the developer 1.1 * 10^12, the
\* pool 16.5 * 10^12 with no rounding remainder, for a total of
\* 115.5 * 10^12, and the price becomes 1.21 * 10^14.
C11_WorkedExampleFullPool ==
    /\ FirstExamplePurchase =>
          /\ last.previousOwner = Nobody
          /\ pixels[last.cell].price = <<11000000, 0>>
          /\ last.prePool = Zero
          /\ prizeBankBalance = <<9900000, 0>>
          /\ last.paid = << <<last.developerWallet, <<100000, 0>> >> >>
          /\ pixelCounts[last.caller] = 1
    /\ SecondExamplePurchase =>
          /\ last.paid = << <<last.previousOwner, <<9240000, 0>> >>,
                            <<last.developerWallet, <<110000, 0>> >> >>
          /\ last.credit = <<1650000, 0>>
          /\ prizeBankBalance = <<11550000, 0>>
          /\ pixels[last.cell].price = <<12100000, 0>>
          /\ pixelCounts[last.previousOwner] = 0
          /\ pixelCounts[last.caller] = 1

C11_Witness ==
    /\ SecondExamplePurchase
    /\ last.cell = <<0, 0>>
    /\ prizeBankBalance = <<11550000, 0>>
    /\ pixelCounts[last.previousOwner] = 0

ValidationErrors == {ErrNotActive, ErrX, ErrY, ErrColor, ErrPayment, ErrOwner}
\* a cell that is owned in storage but was last written in an earlier cycle
Stale(c) == pixels[c].owner # Nobody /\ pixels[c].lastUpdateTime < gameStartTime

\* C12 - Validation rejections mutate nothing: a purchasePixel call rejected
\* by a require of lines 93-115 leaves the whole storage and the balance as
\* they were, the lazy reset of lines 101-107 included, and leaves the
\* suspended calls untouched.
C12_RejectionMutatesNothing ==
    [][(last'.fn = "purchasePixel" /\ last'.result \in ValidationErrors)
       => (Storage' = Storage /\ stack' = stack)]_vars

C12_Witness ==
    /\ last.fn = "purchasePixel"
    /\ last.result = ErrPayment
    /\ \A c \in Corners : Stale(c)

\* a cycle end has just completed
CycleEnded == last.fn \in EndFns /\ last.result = Ok
\* what the finished call transferred to account p
RECURSIVE PaidTo(_, _)
PaidTo(paid, p) ==
    IF paid = <<>> THEN Zero
    ELSE Add(IF paid[1][1] = p THEN paid[1][2] ELSE Zero, PaidTo(Tail(paid), p))
\* the cells whose stored owner is p
CellsOf(p) == Cardinality({c \in Coords : pixels[c].owner = p})
\* the cells stored with p as owner when the finished cycle end scanned the
\* grid, and their total
CellsAt(p) == IF p \in Players THEN last.cells[p] ELSE 0
TotalAt == SumOver(last.cells, Players)
\* every account of the model
Accounts == Players \cup Wallets \cup {"dev", Deployer}
\* n times the amount a
Mul(a, n) == MulDiv(a, n, 1)

C14_ProportionalPayouts ==
    CycleEnded =>
        \A a, b \in Players :
            Mul(PaidTo(last.paid, a), CellsAt(b)) = Mul(PaidTo(last.paid, b), CellsAt(a))

C14_Witness ==
    /\ CycleEnded
    /\ CellsAt("a") = 2
    /\ CellsAt("b") = 1
    /\ Gt(PaidTo(last.paid, "b"), Zero)
    /\ PaidTo(last.paid, "a") = Mul(PaidTo(last.paid, "b"), 2)
    /\ Gt(last.prePool, SumPaid(last.paid))

Range(seq) == {seq[k] : k \in 1..Len(seq)}
\* the largest count in the pixelCounts ledger
MaxCount == CHOOSE m \in {pixelCounts[p] : p \in Players} :
                \A q \in Players : pixelCounts[q] <= m

\* C15 - Winner resolution (as claimed): the winners computed at a cycle end
\* are exactly the actors whose pixelCounts entry equals the largest entry of
\* the ledger, without empty or duplicate slots, and there are none when no
\* cell is owned (a cycle end that nothing re-enters leaves pixelCounts and
\* pixels as it found them).
C15_WinnersAreLedgerMaxima ==
    (CycleEnded /\ ~last.reentered) =>
        /\ Range(last.winners)
              = IF MaxCount = 0 THEN {}
                ELSE {p \in Players : pixelCounts[p] = MaxCount}
        /\ Cardinality(Range(last.winners)) = Len(last.winners)
        /\ Nobody \notin Range(last.winners)

\* C16 - Reset at a cycle boundary (as claimed): right after a cycle end
\* every pixelCounts entry is 0 and no cell counts as owned: the winner
\* resolution and the prize distribution of the new cycle see no owned cell.
C16_CountersResetAtBoundary ==
    (CycleEnded /\ ~last.reentered /\ stack = <<>>) =>
        /\ \A p \in Players : pixelCounts[p] = 0
        /\ FindWinners(Storage) = <<>>
        /\ TotalPixels(Storage) = 0

\* C17 - Lazy reset at first touch (as claimed): right after a cycle end
\* every cell stored with an owner was last written in an earlier cycle, so
\* its first purchase finds it fresh: listed at INITIAL_PRICE and without a
\* previous owner, whoever the stored owner is and whatever the period.
C17_FirstTouchIsFresh ==
    (CycleEnded /\ ~last.reentered /\ last.depth = 1 /\ stack = <<>>) =>
        \A c \in Coords :
            pixels[c].owner # Nobody =>
                /\ ListedPrice(Storage, c) = INITIAL_PRICE
                /\ ResolvedOwner(Storage, c) = Nobody
                /\ \A p \in Players : Answer(p, c, 0) = Ok

\* C18 - Post-state of a cycle end: when endGame or checkAndEndGame has
\* completed at time now, with or without owned cells and whether or not the
\* pool divided evenly, prizeBankBalance is 0, gameActive is true and
\* gameStartTime = lastActivityTime = now; the winners were resolved, from
\* the storage the call found, before any prize was paid (prizes are paid
\* only when there are winners).
C18_CycleEndPostState ==
    [][(now' = now /\ last'.fn \in EndFns /\ last'.result = Ok) =>
          /\ prizeBankBalance' = Zero
          /\ gameActive'
          /\ gameStartTime' = now
          /\ lastActivityTime' = now
          /\ last'.winners
                = FindWinners(IF Len(stack') < Len(stack) THEN Top.snap ELSE Storage)
          /\ last'.paid # <<>> => last'.winners # <<>>]_vars

C18_Witness ==
    /\ CycleEnded
    /\ TotalAt = 2
    /\ last.paid # <<>>
    /\ Gt(last.prePool, SumPaid(last.paid))
    /\ now > DeployTime

\* the block timestamps at which the views are probed: the current one, the
\* next second, and the seconds around the end of the inactivity period
ProbeTimes ==
    {t \in {now, now + 1,
            lastActivityTime + inactivityPeriod - 1,
            lastActivityTime + inactivityPeriod,
            lastActivityTime + inactivityPeriod + 1} : t >= now}

\* C19 - Inactivity timing: at every time t from now on, shouldEndGame()
\* holds exactly when the game is active and t - lastActivityTime >=
\* inactivityPeriod (boundary included); getTimeRemainingBeforeEnd() is 0
\* exactly when the game is not active or shouldEndGame() holds, and is
\* otherwise inactivityPeriod - (t - lastActivityTime) > 0. lastActivityTime
\* is never ahead of the clock, so the subtraction never underflows.
C19_InactivityTiming ==
    /\ lastActivityTime <= now
    /\ \A t \in ProbeTimes :
          LET elapsed == t - lastActivityTime
              remaining == GetTimeRemainingBeforeEnd(Storage, t)
          IN /\ ShouldEndGame(Storage, t)
                   <=> (gameActive /\ elapsed >= inactivityPeriod)
             /\ (gameActive /\ elapsed = inactivityPeriod) => ShouldEndGame(Storage, t)
             /\ (remaining = 0) <=> (~gameActive \/ ShouldEndGame(Storage, t))
             /\ remaining # 0 =>
                   /\ remaining = inactivityPeriod - elapsed
                   /\ remaining > 0

C19_Witness ==
    /\ gameActive
    /\ inactivityPeriod > 0
    /\ now = lastActivityTime + inactivityPeriod
    /\ ShouldEndGame(Storage, now)
    /\ GetTimeRemainingBeforeEnd(Storage, now) = 0
    /\ ~ShouldEndGame(Storage, now - 1)
    /\ GetTimeRemainingBeforeEnd(Storage, now - 1) = 1

\* C20 - Total order of ledger operations (as claimed): no endGame or
\* checkAndEndGame called while a purchasePixel is delivering its transfers
\* takes effect, and no purchasePixel called while a cycle end is delivering
\* its prizes takes effect.
C20_NoInterleaving ==
    /\ (last.fn \in EndFns /\ last.depth > 1 /\ last.outer = "purchasePixel")
          => last.result # Ok
    /\ (last.fn = "purchasePixel" /\ last.depth > 1 /\ last.outer \in EndFns)
          => last.result # Ok

\* C21 - No re-entrant purchase (as claimed): a purchasePixel call made
\* while a transfer is in flight is rejected - by the reentrancy guard inside
\* a purchase, by "Game is not active" inside a cycle end - and changes
\* neither the storage nor the suspended calls.
C21_NoReentrantPurchase ==
    [][(stack # <<>> /\ last'.fn = "purchasePixel" /\ last'.depth = Len(stack) + 1)
       => /\ last'.result \in {ErrReentrant, ErrNotActive}
          /\ Top.fn = "purchasePixel" => last'.result = ErrReentrant
          /\ (Top.fn \in EndFns /\ Len(stack) = 1) => last'.result = ErrNotActive
          /\ Storage' = Storage
          /\ stack' = stack]_vars

\* the inactivity period has run out since the last activity
Expired == now - lastActivityTime >= inactivityPeriod

\* C22 - The game ends after the timeout (as claimed): once a purchase has
\* been made and more than the inactivity period has elapsed since the last
\* one, getGameState reports the game as not active.
C22_NotActiveAfterTimeout ==
    (stack = <<>> /\ purchases > 0 /\ now - lastActivityTime > inactivityPeriod)
        => ~GetGameState(Storage).active

\* C22 (amended) - between transactions a started game is always reported
\* active; when the inactivity period has run out it stays active until an
\* end call is made: shouldEndGame() holds, no time remains, endGame and
\* checkAndEndGame are accepted, and purchases are still accepted.
C22_ActiveUntilTriggered ==
    /\ (stack = <<>> /\ gameStartTime > 0) => GetGameState(Storage).active
    /\ (stack = <<>> /\ gameActive /\ Expired) =>
          /\ ShouldEndGame(Storage, now)
          /\ GetTimeRemainingBeforeEnd(Storage, now) = 0
          /\ \A fn \in EndFns : EndError(Storage, fn, now) = Ok
          /\ \A p \in Players, c \in Coords : Answer(p, c, 0) \in {Ok, ErrOwner}

C22_Witness ==
    /\ stack = <<>>
    /\ Purchased
    /\ inactivityPeriod > 0
    /\ Expired
    /\ GetGameState(Storage).active
    /\ endedAt = 0

\* cell c has been purchased since the start time of the cycle of storage S
Current(S, c) ==
    S.pixels[c].owner # Nobody /\ S.pixels[c].lastUpdateTime >= S.gameStartTime

\* C23 - Lazy reset idempotence: a purchased cell needs no reset - its next
\* purchase sees the buyer as previous owner and the escalated price as the
\* listed price; and as long as the cycle's start time stands, whatever
\* operation completes, the cell stays so, and a purchase of it skips the
\* reset and takes the stored owner and price.
C23_LazyResetIdempotence ==
    [][Len(stack') <= Len(stack) =>
         \A c \in Coords :
            /\ Bought(c) =>
                  /\ LazyReset(Storage', c) = Storage'
                  /\ ResolvedOwner(Storage', c) = last'.caller
                  /\ ListedPrice(Storage', c) = NextPrice(last'.listed)
            /\ (Current(PreStorage, c) /\ gameStartTime' = PreStorage.gameStartTime) =>
                  /\ Current(Storage', c)
                  /\ Bought(c) =>
                        /\ ~last'.lazy
                        /\ last'.previousOwner = PreStorage.pixels[c].owner
                        /\ last'.listed = PreStorage.pixels[c].price]_vars

C23_Witness ==
    /\ Purchased
    /\ stack = <<>>
    /\ ~last.lazy
    /\ last.previousOwner \in Players
    /\ last.listed = NextPrice(INITIAL_PRICE)
    /\ pixels[last.cell].lastUpdateTime = gameStartTime

\* C24 - Effects before interactions (as claimed): while the last transfer
\* of a purchase is being delivered the pixels, pixelCounts,
\* prizeBankBalance and lastActivityTime already have the values they have
\* when the purchase completes.
C24_EffectsBeforeInteractions ==
    [][(/\ Len(stack) = 1
        /\ Top.fn = "purchasePixel"
        /\ stack' = <<>>
        /\ last'.result = Ok)
       => /\ pixels' = pixels
          /\ pixelCounts' = pixelCounts
          /\ prizeBankBalance' = prizeBankBalance
          /\ lastActivityTime' = lastActivityTime]_vars

\* C25 - Ledger update per purchase: a successful purchase of a cell by b
\* raises pixelCounts[b] by 1, lowers the count of the cell's lazily
\* resolved previous owner, if any, by 1 and leaves every other count as it
\* was before the call.
C25_LedgerUpdatePerPurchase ==
    [][\A c \in Coords :
          Bought(c) =>
              /\ last'.previousOwner = ResolvedOwner(PreStorage, c)
              /\ last'.previousOwner # last'.caller
              /\ \A p \in Players :
                    pixelCounts'[p] =
                        PreStorage.pixelCounts[p]
                          + (IF p = last'.caller THEN 1 ELSE 0)
                          - (IF p = last'.previousOwner THEN 1 ELSE 0)]_vars

C25_Witness ==
    /\ Purchased
    /\ stack = <<>>
    /\ last.lazy
    /\ Gt(last.shown, INITIAL_PRICE)
    /\ last.previousOwner = Nobody
    /\ \A p \in Players : pixelCounts[p] = 1

\* C26 - Activity clock: a purchase that completes, also one made after the
\* inactivity period has run out, leaves lastActivityTime = now, so that
\* shouldEndGame() is false for a non-zero period; a purchase that is
\* rejected or reverts leaves lastActivityTime as it was before the call;
\* and gameStartTime <= lastActivityTime <= now whenever the game is active.
C26_ActivityClock ==
    /\ [](gameActive => (gameStartTime <= lastActivityTime /\ lastActivityTime <= now))
    /\ [][(now' = now /\ last'.fn = "purchasePixel") =>
            /\ last'.result = Ok =>
                  /\ lastActivityTime' = now
                  /\ inactivityPeriod' > 0 => ~ShouldEndGame(Storage', now)
            /\ (last'.result # Ok /\ last'.depth = Len(stack) + 1) =>
                  lastActivityTime' = lastActivityTime
            /\ (last'.result # Ok /\ last'.depth = Len(stack)) =>
                  lastActivityTime' = Top.snap.lastActivityTime]_vars

C26_Witness ==
    /\ Purchased
    /\ stack = <<>>
    /\ inactivityPeriod > 0
    /\ endedAt = 0
    /\ gameStartTime = DeployTime
    /\ now >= DeployTime + inactivityPeriod
    /\ lastActivityTime = now
    /\ ~ShouldEndGame(Storage, now)

\* the coordinate pairs of a getPixelsByOwner result
Pairs(r) == {<<r[2 * k - 1], r[2 * k]>> : k \in 1..(Len(r) \div 2)}

\* C27 - Owned-cell listing (as claimed): getPixelsByOwner(a) has
\* pixelCounts[a] coordinate pairs, and they are exactly the cells whose
\* owner is a, each once.
C27_OwnedCellListing ==
    \A a \in Players :
        LET r == GetPixelsByOwner(Storage, a) IN
        /\ Len(r) = 2 * pixelCounts[a]
        /\ Pairs(r) = {c \in Coords : pixels[c].owner = a}
        /\ Cardinality(Pairs(r)) = pixelCounts[a]

\* C28 - The cell view agrees with the purchase rule (as claimed): while the
\* game is active the price getPixel returns is the smallest payment that
\* passes the payment check of purchasePixel (the lazily resolved price), and
\* the owner it returns is the previous owner such a purchase would pay.
C28_ViewAgreesWithPurchase ==
    (gameActive /\ stack = <<>>) =>
        \A c \in Coords :
            /\ GetPixel(Storage, c).price = ListedPrice(Storage, c)
            /\ GetPixel(Storage, c).owner = ResolvedOwner(Storage, c)

\* C29 - Solvency (as claimed): between operations the contract holds at
\* least prizeBankBalance; no transfer fails for lack of funds (a transfer
\* fails only when its recipient refuses it); and a cycle end pays out no
\* more than the pool it started with.
C29_Solvency ==
    /\ stack = <<>> => Ge(balance, prizeBankBalance)
    /\ CycleEnded => Ge(last.prePool, SumPaid(last.paid))
    /\ last.result \in {ErrPrevPay, ErrDevPay, ErrPrize} => last.refused

\* C30 - No ledger underflow: every pixelCounts entry is at least the number
\* of cells stored with that actor as owner, so the decrement of line 119
\* never underflows: no purchase is answered, and none could be answered,
\* with an arithmetic panic.
C30_NoLedgerUnderflow ==
    /\ \A a \in Players : pixelCounts[a] >= CellsOf(a)
    /\ last.result # ErrPanic
    /\ \A p \in Players, c \in Coords, o \in Offsets : Answer(p, c, o) # ErrPanic

C30_Witness ==
    /\ Purchased
    /\ stack = <<>>
    /\ last.previousOwner \in Players
    /\ pixelCounts[last.previousOwner] = 0
    /\ CellsOf(last.previousOwner) = 0

====
